---- MODULE Spec2Model ----
(***************************************************************************)
(* Model of RouteDataGenerator (libosmscout-import, GenRouteDat.cpp): the  *)
(* import stage that reads rawrels.dat and ways.dat and writes route.dat.  *)
(*                                                                         *)
(* Ids, indices and counters are naturals.  Vector indices keep the        *)
(* 0-based values of the code (Path.wayIndex, Exclude.targetPath); the     *)
(* operator At0 reads a TLA+ sequence at a 0-based index.  Coordinates,    *)
(* distances, maxSpeed and flags of a Path are copied or summed by the     *)
(* code without influencing any control flow and are left out of the Path  *)
(* record.                                                                 *)
(***************************************************************************)
EXTENDS Integers, Sequences, FiniteSets, TLC

(***************************************************************************)
(* Bounds of the model.                                                    *)
(***************************************************************************)
\* largest routeNodeBlockSize tried (ImportParameter::GetRouteNodeBlockSize)
MaxBlockSize == 2
\* longest rawrels.dat tried by the restriction specification
MaxRels == 2

(***************************************************************************)
(* Generic helpers.                                                        *)
(***************************************************************************)
\* element of a vector at a 0-based index
At0(s, i) == s[i + 1]

Range(s) == {s[i] : i \in DOMAIN s}

Min(a, b) == IF a < b THEN a ELSE b

\* the elements of a finite set of numbers in ascending order: the iteration
\* order of std::set<Id> and of the keys of std::map<Id,...>
RECURSIVE SetToSortedSeq(_)
SetToSortedSeq(S) ==
  IF S = {} THEN <<>>
  ELSE LET m == CHOOSE x \in S : \A y \in S : x <= y
       IN <<m>> \o SetToSortedSeq(S \ {m})

\* std::list<Id>::sort(): ascending, duplicates kept
RECURSIVE InsertSorted(_, _)
InsertSorted(s, x) ==
  IF s = <<>> THEN <<x>>
  ELSE IF x < Head(s) THEN <<x>> \o s
       ELSE <<Head(s)>> \o InsertSorted(Tail(s), x)

\* faulty variant of ListSort: the list is left in insertion order
ListSortNone(s) == s

RECURSIVE ListSort(_)
ListSort(s) ==
  IF s = <<>> THEN <<>>
  ELSE InsertSorted(ListSort(SubSeq(s, 1, Len(s) - 1)), s[Len(s)])

(***************************************************************************)
(* Type configuration.  A way type is typeIgnore, or carries the two flags *)
(* GetIgnore() and CanBeRoute() of its TypeInfo.                           *)
(***************************************************************************)
typeIgnore == "typeIgnore"

WayTypes == {typeIgnore, "road", "ignored", "building"}

TypeInfoIgnore(t) == t = "ignored"

TypeInfoCanBeRoute(t) == t = "road"

\* the three tests shared by ReadJunctions and ReadWayEndpoints
IsRoutable(way) ==
  /\ way.type # typeIgnore
  /\ ~TypeInfoIgnore(way.type)
  /\ TypeInfoCanBeRoute(way.type)

\* relation types registered as restrictions
posRestrictions ==
  {"restriction_only_right_turn", "restriction_only_left_turn",
   "restriction_only_straight_on"}

negRestrictions ==
  {"restriction_no_right_turn", "restriction_no_left_turn",
   "restriction_no_u_turn", "restriction_no_straight_on"}

allow == "allow"

forbit == "forbit"

memberNode == "memberNode"

memberWay == "memberWay"

(***************************************************************************)
(* ReadRestrictionRelations                                                *)
(***************************************************************************)
\* a Restriction as "Restriction restriction;" declares it: the struct is
\* declared in GenRouteDat.h and its from and to start at 0, as the test
\* "if all three are non-zero" of the restriction reader has it
NewRestriction == [from |-> 0, to |-> 0]

\* faulty variant of ScanMembers: only the role of a member is tested
RECURSIVE ScanMembersByRole(_, _)
ScanMembersByRole(members, acc) ==
  IF members = <<>> THEN acc
  ELSE LET m == Head(members)
           acc2 == IF m.role = "from" THEN [acc EXCEPT !.from = m.id]
                   ELSE IF m.role = "via" THEN [acc EXCEPT !.via = m.id]
                   ELSE IF m.role = "to" THEN [acc EXCEPT !.to = m.id]
                   ELSE acc
       IN ScanMembersByRole(Tail(members), acc2)

\* the member loop: the last matching member of each role wins
RECURSIVE ScanMembers(_, _)
ScanMembers(members, acc) ==
  IF members = <<>> THEN acc
  ELSE LET m == Head(members)
           acc2 == IF m.type = memberWay /\ m.role = "from"
                     THEN [acc EXCEPT !.from = m.id]
                   ELSE IF m.type = memberNode /\ m.role = "via"
                     THEN [acc EXCEPT !.via = m.id]
                   ELSE IF m.type = memberWay /\ m.role = "to"
                     THEN [acc EXCEPT !.to = m.id]
                   ELSE acc
       IN ScanMembers(Tail(members), acc2)

\* restrictions[via].push_back(restriction) on a std::map
MapPushBack(m, key, value) ==
  [k \in DOMAIN m \cup {key} |->
     IF k = key
       THEN (IF k \in DOMAIN m THEN Append(m[k], value) ELSE <<value>>)
       ELSE m[k]]

\* the effect of one relation of rawrels.dat on the restriction map
HandleRelation(relation, restr) ==
  IF relation.type \in posRestrictions \/ relation.type \in negRestrictions
    THEN LET kind == IF relation.type \in posRestrictions THEN allow ELSE forbit
             r == ScanMembers(relation.members,
                              [from |-> NewRestriction.from, via |-> 0,
                               to |-> NewRestriction.to])
         IN IF r.from # 0 /\ r.via # 0 /\ r.to # 0
              THEN MapPushBack(restr, r.via,
                               [type |-> kind, from |-> r.from, to |-> r.to])
              ELSE restr
    ELSE restr

RECURSIVE ReadRestrictionRelationsFrom(_, _)
ReadRestrictionRelationsFrom(rels, restr) ==
  IF rels = <<>> THEN restr
  ELSE ReadRestrictionRelationsFrom(Tail(rels), HandleRelation(Head(rels), restr))

(***************************************************************************)
(* CanTurn                                                                 *)
(***************************************************************************)
\* faulty variant of CanTurnScan: an allow restriction of another target does not
\* turn the default to false
RECURSIVE CanTurnScanNoDefault(_, _, _, _)
CanTurnScanNoDefault(rs, from, to, defaultReturn) ==
  IF rs = <<>> THEN defaultReturn
  ELSE LET r == Head(rs)
       IN IF r.from = from /\ r.to = to
            THEN r.type = allow
            ELSE CanTurnScanNoDefault(Tail(rs), from, to,
                                      IF r.from = from /\ r.type = forbit
                                        THEN TRUE ELSE defaultReturn)

\* faulty variant of CanTurnScan: a restriction with another from way also
\* sets the default
RECURSIVE CanTurnScanAnyFrom(_, _, _, _)
CanTurnScanAnyFrom(rs, from, to, defaultReturn) ==
  IF rs = <<>> THEN defaultReturn
  ELSE LET r == Head(rs)
       IN IF r.from = from /\ r.to = to
            THEN r.type = allow
            ELSE CanTurnScanAnyFrom(Tail(rs), from, to, r.type = forbit)

RECURSIVE CanTurnScan(_, _, _, _)
CanTurnScan(rs, from, to, defaultReturn) ==
  IF rs = <<>> THEN defaultReturn
  ELSE LET r == Head(rs)
       IN IF r.from = from
            THEN IF r.type = allow
                   THEN IF r.to = to THEN TRUE
                        ELSE CanTurnScan(Tail(rs), from, to, FALSE)
                   ELSE IF r.type = forbit
                          THEN IF r.to = to THEN FALSE
                               ELSE CanTurnScan(Tail(rs), from, to, TRUE)
                          ELSE CanTurnScan(Tail(rs), from, to, defaultReturn)
            ELSE CanTurnScan(Tail(rs), from, to, defaultReturn)

CanTurn(rs, from, to) ==
  IF rs = <<>> THEN TRUE ELSE CanTurnScan(rs, from, to, TRUE)

(***************************************************************************)
(* ReadJunctions                                                           *)
(***************************************************************************)
\* faulty variant of CountNodes: a node counts once per way
CountNodesOnce(nodes, cnt) ==
  [k \in DOMAIN cnt \cup Range(nodes) |->
     (IF k \in DOMAIN cnt THEN cnt[k] ELSE 0)
       + (IF k \in Range(nodes) THEN 1 ELSE 0)]

\* the inner loop: one increment per node of the way
RECURSIVE CountNodes(_, _)
CountNodes(nodes, cnt) ==
  IF nodes = <<>> THEN cnt
  ELSE LET n == Head(nodes)
           cnt2 == IF n \in DOMAIN cnt
                     THEN [cnt EXCEPT ![n] = @ + 1]
                     ELSE [k \in DOMAIN cnt \cup {n} |->
                             IF k = n THEN 1 ELSE cnt[k]]
       IN CountNodes(Tail(nodes), cnt2)

RECURSIVE NodeWayCountMap(_, _)
NodeWayCountMap(ws, cnt) ==
  IF ws = <<>> THEN cnt
  ELSE LET way == Head(ws)
       IN NodeWayCountMap(Tail(ws),
                          IF IsRoutable(way) THEN CountNodes(way.nodes, cnt)
                                             ELSE cnt)

EmptyMap == [k \in {} |-> 0]

ReadJunctions(ws) ==
  LET cnt == NodeWayCountMap(ws, EmptyMap)
  IN {n \in DOMAIN cnt : cnt[n] >= 2}

(***************************************************************************)
(* ReadWayEndpoints                                                        *)
(***************************************************************************)
RECURSIVE CollectEndpoints(_, _, _, _)
CollectEndpoints(nodes, wayId, junct, m) ==
  IF nodes = <<>> THEN m
  ELSE CollectEndpoints(Tail(nodes), wayId, junct,
                        IF Head(nodes) \in junct
                          THEN MapPushBack(m, Head(nodes), wayId)
                          ELSE m)

RECURSIVE ReadWayEndpointsFrom(_, _, _)
ReadWayEndpointsFrom(ws, junct, m) ==
  IF ws = <<>> THEN m
  ELSE LET way == Head(ws)
       IN ReadWayEndpointsFrom(Tail(ws), junct,
                               IF IsRoutable(way)
                                 THEN CollectEndpoints(way.nodes, way.id, junct, m)
                                 ELSE m)

ReadWayEndpoints(ws, junct) == ReadWayEndpointsFrom(ws, junct, EmptyMap)

(***************************************************************************)
(* Import: the paths of one way at one junction.                           *)
(* keys is the key set of nodeWayMap (nodeWayMap.find(..)!=end()).         *)
(***************************************************************************)
Path(way, target, wayIndex) == [id |-> At0(way.nodes, target), wayIndex |-> wayIndex]

\* "while (currentNode<size && nodes[currentNode].GetId()!=node->first)"
RECURSIVE FindCurrentNode(_, _, _)
FindCurrentNode(nodes, id, currentNode) ==
  IF currentNode < Len(nodes) /\ At0(nodes, currentNode) # id
    THEN FindCurrentNode(nodes, id, currentNode + 1)
    ELSE currentNode

StepNext(nodes, i) == IF i + 1 >= Len(nodes) THEN 0 ELSE i + 1

StepPrev(nodes, i) == IF i - 1 < 0 THEN Len(nodes) - 1 ELSE i - 1

\* forward walk with wrap-around until currentNode or a junction is reached
RECURSIVE WalkNext(_, _, _, _)
WalkNext(nodes, currentNode, nextNode, keys) ==
  IF nextNode # currentNode /\ At0(nodes, nextNode) \notin keys
    THEN WalkNext(nodes, currentNode, StepNext(nodes, nextNode), keys)
    ELSE nextNode

\* backward walk with wrap-around until currentNode or a junction is reached
RECURSIVE WalkPrev(_, _, _, _)
WalkPrev(nodes, currentNode, prevNode, keys) ==
  IF prevNode # currentNode /\ At0(nodes, prevNode) \notin keys
    THEN WalkPrev(nodes, currentNode, StepPrev(nodes, prevNode), keys)
    ELSE prevNode

\* the forward path of the area branch and of the circular branch
ForwardPath(way, currentNode, nextNode, wayIndex) ==
  IF nextNode # currentNode THEN <<Path(way, nextNode, wayIndex)>> ELSE <<>>

\* faulty variant of BackwardPath: "prevNode!=nextNode" is not tested
BackwardPathUnchecked(way, currentNode, nextNode, prevNode, wayIndex) ==
  IF prevNode # currentNode
    THEN <<Path(way, prevNode, wayIndex)>>
    ELSE <<>>

\* the backward path of the area branch and of the circular branch
BackwardPath(way, currentNode, nextNode, prevNode, wayIndex) ==
  IF prevNode # currentNode /\ prevNode # nextNode
    THEN <<Path(way, prevNode, wayIndex)>>
    ELSE <<>>

\* "Area routing"
AreaPaths(way, id, keys, wayIndex) ==
  LET currentNode == FindCurrentNode(way.nodes, id, 0)
      nextNode == WalkNext(way.nodes, currentNode,
                           StepNext(way.nodes, currentNode), keys)
      prevNode == WalkPrev(way.nodes, currentNode,
                           StepPrev(way.nodes, currentNode), keys)
  IN ForwardPath(way, currentNode, nextNode, wayIndex)
       \o BackwardPath(way, currentNode, nextNode, prevNode, wayIndex)

\* "Circular way routing (similar to current area routing, but respecting isOneway())"
CircularPaths(way, id, keys, wayIndex) ==
  LET currentNode == FindCurrentNode(way.nodes, id, 0)
      nextNode == WalkNext(way.nodes, currentNode,
                           StepNext(way.nodes, currentNode), keys)
      prevNode == WalkPrev(way.nodes, currentNode,
                           StepPrev(way.nodes, currentNode), keys)
  IN ForwardPath(way, currentNode, nextNode, wayIndex)
       \o (IF ~way.oneway
             THEN BackwardPath(way, currentNode, nextNode, prevNode, wayIndex)
             ELSE <<>>)

\* "while (j>=0) { if (junction) break; j--; }"
RECURSIVE ScanBack(_, _, _)
ScanBack(nodes, j, keys) ==
  IF j >= 0 /\ At0(nodes, j) \notin keys THEN ScanBack(nodes, j - 1, keys) ELSE j

\* "while (j<size) { if (junction) break; j++; }"
RECURSIVE ScanForward(_, _, _)
ScanForward(nodes, j, keys) ==
  IF j < Len(nodes) /\ At0(nodes, j) \notin keys
    THEN ScanForward(nodes, j + 1, keys)
    ELSE j

\* faulty variant of OpenBackward: IsOneway() is not consulted
OpenBackwardIgnoresOneway(way, i, keys, wayIndex) ==
  IF i > 0
    THEN LET j == ScanBack(way.nodes, i - 1, keys)
         IN IF j >= 0 THEN <<Path(way, j, wayIndex)>> ELSE <<>>
    ELSE <<>>

\* the backward path of the normal branch at position i
OpenBackward(way, i, keys, wayIndex) ==
  IF i > 0 /\ ~way.oneway
    THEN LET j == ScanBack(way.nodes, i - 1, keys)
         IN IF j >= 0 THEN <<Path(way, j, wayIndex)>> ELSE <<>>
    ELSE <<>>

\* the forward path of the normal branch at position i
OpenForward(way, i, keys, wayIndex) ==
  IF i + 1 < Len(way.nodes)
    THEN LET j == ScanForward(way.nodes, i + 1, keys)
         IN IF j < Len(way.nodes) THEN <<Path(way, j, wayIndex)>> ELSE <<>>
    ELSE <<>>

\* "Normal way routing": every position i of the way that holds the junction
RECURSIVE OpenPathsFrom(_, _, _, _, _)
OpenPathsFrom(way, id, keys, wayIndex, i) ==
  IF i >= Len(way.nodes) THEN <<>>
  ELSE (IF At0(way.nodes, i) = id
          THEN OpenBackward(way, i, keys, wayIndex)
                 \o OpenForward(way, i, keys, wayIndex)
          ELSE <<>>)
       \o OpenPathsFrom(way, id, keys, wayIndex, i + 1)

OpenPaths(way, id, keys, wayIndex) == OpenPathsFrom(way, id, keys, wayIndex, 0)

IsClosed(way) == Head(way.nodes) = way.nodes[Len(way.nodes)]

\* the three topology branches
WayPaths(way, id, keys, wayIndex) ==
  IF way.area THEN AreaPaths(way, id, keys, wayIndex)
  ELSE IF IsClosed(way) THEN CircularPaths(way, id, keys, wayIndex)
  ELSE OpenPaths(way, id, keys, wayIndex)

(***************************************************************************)
(* Import: the loop over the sorted way list of a junction.  rn carries    *)
(* routeNode.ways, routeNode.paths and the ways reported as missing.       *)
(***************************************************************************)
\* faulty variant of CurrentWayIndex: the size is taken for the last index
CurrentWayIndexSize(ways) == Len(ways)

\* "path.wayIndex=routeNode.ways.size()-1"
CurrentWayIndex(ways) == Len(ways) - 1

\* faulty variant of BuildPaths: a way that was not loaded ends the loop over
\* the ways of the junction
RECURSIVE BuildPathsBreak(_, _, _, _, _)
BuildPathsBreak(wayList, wmap, id, keys, rn) ==
  IF wayList = <<>> THEN rn
  ELSE LET wayId == Head(wayList)
       IN IF wayId \notin DOMAIN wmap
            THEN [rn EXCEPT !.errors = Append(@, wayId)]
            ELSE LET ways2 == Append(rn.ways, wayId)
                     new == WayPaths(wmap[wayId], id, keys, CurrentWayIndex(ways2))
                 IN BuildPathsBreak(Tail(wayList), wmap, id, keys,
                                    [rn EXCEPT !.ways = ways2, !.paths = @ \o new])

RECURSIVE BuildPaths(_, _, _, _, _)
BuildPaths(wayList, wmap, id, keys, rn) ==
  IF wayList = <<>> THEN rn
  ELSE LET wayId == Head(wayList)
       IN IF wayId \notin DOMAIN wmap
            THEN BuildPaths(Tail(wayList), wmap, id, keys,
                            [rn EXCEPT !.errors = Append(@, wayId)])
            ELSE LET ways2 == Append(rn.ways, wayId)
                     new == WayPaths(wmap[wayId], id, keys, CurrentWayIndex(ways2))
                 IN BuildPaths(Tail(wayList), wmap, id, keys,
                               [rn EXCEPT !.ways = ways2, !.paths = @ \o new])

(***************************************************************************)
(* Import: turn restrictions to excludes.                                  *)
(***************************************************************************)
\* faulty variant of FindTargetPath: the wayIndex of the path is compared with the
\* way id, without the lookup in ways
RECURSIVE FindTargetPathByIndex(_, _, _, _)
FindTargetPathByIndex(ways, paths, destWayId, targetPath) ==
  IF targetPath < Len(paths) /\ At0(paths, targetPath).wayIndex # destWayId
    THEN FindTargetPathByIndex(ways, paths, destWayId, targetPath + 1)
    ELSE targetPath

\* "while (targetPath<paths.size() && ways[paths[targetPath].wayIndex]!=dest)"
RECURSIVE FindTargetPath(_, _, _, _)
FindTargetPath(ways, paths, destWayId, targetPath) ==
  IF targetPath < Len(paths)
     /\ At0(ways, At0(paths, targetPath).wayIndex) # destWayId
    THEN FindTargetPath(ways, paths, destWayId, targetPath + 1)
    ELSE targetPath

\* faulty variant of ExcludeFor: the exclude is appended without the test
\* "targetPath<paths.size()"
ExcludeForUnchecked(rs, ways, paths, sourceWayId, destWayId) ==
  IF sourceWayId # destWayId /\ ~CanTurn(rs, sourceWayId, destWayId)
    THEN <<[sourceWay |-> sourceWayId,
            targetPath |-> FindTargetPath(ways, paths, destWayId, 0)]>>
    ELSE <<>>

\* the body of the two nested loops for one pair of list entries
ExcludeFor(rs, ways, paths, sourceWayId, destWayId) ==
  IF sourceWayId # destWayId /\ ~CanTurn(rs, sourceWayId, destWayId)
    THEN LET targetPath == FindTargetPath(ways, paths, destWayId, 0)
         IN IF targetPath < Len(paths)
              THEN <<[sourceWay |-> sourceWayId, targetPath |-> targetPath]>>
              ELSE <<>>
    ELSE <<>>

RECURSIVE ExcludesDest(_, _, _, _, _)
ExcludesDest(rs, ways, paths, sourceWayId, dests) ==
  IF dests = <<>> THEN <<>>
  ELSE ExcludeFor(rs, ways, paths, sourceWayId, Head(dests))
         \o ExcludesDest(rs, ways, paths, sourceWayId, Tail(dests))

RECURSIVE ExcludesSource(_, _, _, _, _)
ExcludesSource(rs, ways, paths, sources, wayList) ==
  IF sources = <<>> THEN <<>>
  ELSE ExcludesDest(rs, ways, paths, Head(sources), wayList)
         \o ExcludesSource(rs, ways, paths, Tail(sources), wayList)

\* "turnConstraints=restrictions.find(routeNode.GetId())"
BuildExcludes(restr, id, wayList, ways, paths) ==
  IF id \in DOMAIN restr
    THEN ExcludesSource(restr[id], ways, paths, wayList, wayList)
    ELSE <<>>

\* the RouteNode of junction id; wayList is node->second after sort()
BuildRouteNode(id, wayList, wmap, keys, restr) ==
  LET rn == BuildPaths(wayList, wmap, id, keys,
                       [ways |-> <<>>, paths |-> <<>>, errors |-> <<>>])
  IN [id |-> id, ways |-> rn.ways, paths |-> rn.paths,
      excludes |-> BuildExcludes(restr, id, wayList, rn.ways, rn.paths),
      errors |-> rn.errors]

(***************************************************************************)
(* LoadWays.  way.idx (NumericIndex, an external collaborator) is modelled *)
(* as the set idx of way ids it holds; the offset of a way is the index of *)
(* its record in ways.dat (the header is record 0).                        *)
(***************************************************************************)
RECURSIVE OffsetOf(_, _, _)
OffsetOf(ws, id, k) ==
  IF ws = <<>> THEN 0
  ELSE IF Head(ws).id = id THEN k ELSE OffsetOf(Tail(ws), id, k + 1)

\* NumericIndex::GetOffsets: the offsets of the ids the index holds, by id
GetOffsets(ws, idx, ids) ==
  LET found == SetToSortedSeq(ids \cap idx)
  IN [i \in 1..Len(found) |-> OffsetOf(ws, found[i], 1)]

\* the loop over the offsets: SetPos, way->Read(scanner), ways.push_back(way)
ReadWaysAt(ws, offsets) == [i \in 1..Len(offsets) |-> ws[offsets[i]]]

\* faulty variant of WaysMapOf: only the first way of the list is entered
WaysMapOfFirst(ways) ==
  [id \in {ways[i].id : i \in DOMAIN ways \cap {1}} |-> ways[1]]

\* the map from way id to way that lines 541-547 build from the list
WaysMapOf(ways) ==
  [id \in {ways[i].id : i \in DOMAIN ways} |->
     LET last == CHOOSE i \in DOMAIN ways :
                   /\ ways[i].id = id
                   /\ \A j \in DOMAIN ways : ways[j].id = id => j <= i
     IN ways[last]]

\* the scanner position where LoadWays stops when step k (1-based) of its
\* loop fails: a failed SetPos leaves the scanner behind the way read before,
\* a failed Read leaves it inside the way at that offset
PosAtFailure(offsets, oldPos, k, kind) ==
  IF kind = "SetPos"
    THEN (IF k = 1 THEN oldPos ELSE offsets[k - 1] + 1)
    ELSE offsets[k]

(***************************************************************************)
(* FileWriter on route.dat: the file is a sequence of items (the uint32    *)
(* count, then RouteNode records) and the position counts items.           *)
(***************************************************************************)
\* faulty variant of FileWrite: the position is ignored, every write appends
FileWriteAppend(file, pos, item) == Append(file, item)

FileWrite(file, pos, item) ==
  IF pos < Len(file) THEN [file EXCEPT ![pos + 1] = item] ELSE Append(file, item)

\* what RouteNode::Write stores
Stored(rn) ==
  [id |-> rn.id, ways |-> rn.ways, paths |-> rn.paths, excludes |-> rn.excludes]

\* uint32_t arithmetic: the counters are bounded by the number of junctions
\* and paths of the inputs and stay far below 2^32, where they would wrap
Inc32(x) == x + 1

Add32(x, y) == x + y

(***************************************************************************)
(* State.                                                                  *)
(***************************************************************************)
VARIABLES
  rawRels,                \* rawrels.dat: the relation records
  waysDat,                \* ways.dat: the way records
  wayIdx,                 \* way.idx: the way ids the index holds
  blockSize,              \* parameter.GetRouteNodeBlockSize()
  pc,                     \* position in Import
  restrictions,           \* std::map<Id,std::vector<Restriction> >
  junctions,              \* std::set<Id>
  nodeWayMap,             \* std::map<Id,std::list<Id> >
  node,                   \* the iterator of the outer loop: 0-based rank among the keys
  block,                  \* block[0..blockCount-1]: the keys of the current block
  wayIds,                 \* the way ids of the current block
  waysMap,                \* std::map<Id,WayRef> of the current block
  w,                      \* index of the store loop
  scannerPos,             \* position of the ways.dat scanner
  routeDat,               \* route.dat
  writerPos,              \* position of the writer
  handledRouteNodeCount,
  writtenRouteNodeCount,
  writtenRoutePathCount,
  errors                  \* way ids reported by progress.Error("Error while loading way ..")

vars ==
  <<rawRels, waysDat, wayIdx, blockSize, pc, restrictions, junctions, nodeWayMap,
    node, block, wayIds, waysMap, w, scannerPos, routeDat, writerPos,
    handledRouteNodeCount, writtenRouteNodeCount, writtenRoutePathCount, errors>>

inputs == <<rawRels, waysDat, wayIdx, blockSize>>

\* the keys of nodeWayMap in iteration order
Keys == SetToSortedSeq(DOMAIN nodeWayMap)

blockCount == Len(block)

(***************************************************************************)
(* Inputs.  Node ids 1, 2, 3 are shared between ways, 4, 5, 6 lie inside   *)
(* one way only, 7 is the far end of the connecting ways.                  *)
(***************************************************************************)
MkWay(id, nodes, area, oneway, type) ==
  [id |-> id, nodes |-> nodes, area |-> area, oneway |-> oneway, type |-> type]

\* node lists of the way under study: open chain with inner and outer plain
\* nodes, triangle, roundabout, lollipop, loop with two shared nodes, chain
MainNodeLists ==
  { <<4, 1, 5, 2, 6>>, <<1, 2, 3, 1>>, <<1, 4, 2, 5, 3, 6, 1>>,
    <<1, 2, 3, 2>>, <<1, 4, 2, 5, 1>>, <<1, 2, 3>> }

MainWays ==
  { MkWay(2, nodes, k[1], k[2], "road") :
      nodes \in MainNodeLists,
      k \in {<<FALSE, FALSE>>, <<FALSE, TRUE>>, <<TRUE, FALSE>>} }

\* the other ways of ways.dat, in file order; the last one is not routable
ConnectorWays ==
  << MkWay(3, <<1, 7>>, FALSE, FALSE, "road"),
     MkWay(1, <<7, 2>>, FALSE, FALSE, "road"),
     MkWay(4, <<3, 7>>, FALSE, FALSE, "road"),
     MkWay(5, <<1, 2, 3>>, FALSE, FALSE, "building") >>

RECURSIVE SubSeqOf(_, _, _)
SubSeqOf(s, picked, i) ==
  IF i > Len(s) THEN <<>>
  ELSE (IF i \in picked THEN <<s[i]>> ELSE <<>>) \o SubSeqOf(s, picked, i + 1)

WayFiles ==
  { <<main>> \o SubSeqOf(ConnectorWays, picked, 1) :
      main \in MainWays, picked \in SUBSET (DOMAIN ConnectorWays) }

WayIdsOf(ws) == {ws[i].id : i \in DOMAIN ws}

\* way.idx holds every way of ways.dat, or all but one
IndexesOf(ws) == {WayIdsOf(ws)} \cup {WayIdsOf(ws) \ {id} : id \in WayIdsOf(ws)}

Member(type, role, id) == [type |-> type, role |-> role, id |-> id]

MkRelation(type, from, via, to) ==
  [type |-> type,
   members |-> << Member(memberWay, "from", from), Member(memberNode, "via", via),
                  Member(memberWay, "to", to) >>]

RelFiles ==
  { <<>>,
    << MkRelation("restriction_no_left_turn", 3, 7, 1) >>,
    << MkRelation("restriction_only_right_turn", 4, 7, 3),
       MkRelation("restriction_no_u_turn", 2, 1, 3) >> }

\* the restriction specification: three ways meeting in nodes 1, 2 and 3
TurnWays ==
  << MkWay(2, <<2, 1, 3>>, FALSE, FALSE, "road"),
     MkWay(1, <<1, 3>>, FALSE, FALSE, "road"),
     MkWay(3, <<3, 1, 2>>, FALSE, TRUE, "road") >>

TurnRelations ==
  { MkRelation(type, from, 1, to) :
      type \in {"restriction_only_left_turn", "restriction_no_u_turn", "multipolygon"},
      from \in {1, 2}, to \in {1, 2, 3} }

SeqsUpTo(S, n) == UNION {[1..k -> S] : k \in 0..n}

\* member lists that do not give a restriction: via is a way, from is a
\* node, a member is missing, no member at all, an id is 0
MalformedMembers ==
  { << Member(memberWay, "from", 1), Member(memberWay, "via", 1),
       Member(memberWay, "to", 2) >>,
    << Member(memberNode, "from", 1), Member(memberNode, "via", 1),
       Member(memberWay, "to", 2) >>,
    << Member(memberWay, "from", 1), Member(memberNode, "via", 1) >>,
    << Member(memberNode, "via", 1), Member(memberWay, "to", 2) >>,
    << >>,
    << Member(memberWay, "from", 0), Member(memberNode, "via", 1),
       Member(memberWay, "to", 2) >>,
    << Member(memberWay, "from", 1), Member(memberNode, "via", 0),
       Member(memberWay, "to", 2) >> }

\* member lists that give a restriction: members in another order, a member
\* with another role, two members with role to
CompleteMembers ==
  { << Member(memberWay, "to", 1), Member(memberNode, "via", 3),
       Member(memberNode, "location_hint", 2), Member(memberWay, "from", 2) >>,
    << Member(memberWay, "from", 1), Member(memberNode, "via", 1),
       Member(memberWay, "to", 2), Member(memberWay, "to", 3) >> }

\* the relations of the reader specification: every recognised type and one
\* other type with complete members, two types with every other member list
ReaderRelations ==
  { MkRelation(type, 1, 1, 2) :
      type \in posRestrictions \cup negRestrictions \cup {"multipolygon"} }
    \cup { [type |-> type, members |-> members] :
             type \in {"restriction_only_left_turn", "restriction_no_u_turn"},
             members \in MalformedMembers \cup CompleteMembers }

(***************************************************************************)
(* Init: the state when Import is entered.                                 *)
(***************************************************************************)
InitLocals ==
  /\ pc = "rels"
  /\ restrictions = EmptyMap
  /\ junctions = {}
  /\ nodeWayMap = EmptyMap
  /\ node = 0
  /\ block = <<>>
  /\ wayIds = {}
  /\ waysMap = EmptyMap
  /\ w = 0
  /\ scannerPos = 0
  /\ routeDat = <<>>
  /\ writerPos = 0
  /\ handledRouteNodeCount = 0
  /\ writtenRouteNodeCount = 0
  /\ writtenRoutePathCount = 0
  /\ errors = <<>>

Init ==
  /\ waysDat \in WayFiles
  /\ wayIdx \in IndexesOf(waysDat)
  /\ rawRels \in RelFiles
  /\ blockSize \in 1..MaxBlockSize
  /\ InitLocals

InitTurn ==
  /\ waysDat = TurnWays
  /\ wayIdx \in IndexesOf(waysDat)
  /\ rawRels \in SeqsUpTo(TurnRelations, MaxRels)
  /\ blockSize = MaxBlockSize
  /\ InitLocals

\* node lists for the junction count: two chains, a closed way, a lollipop
JunctionNodeLists == {<<1, 2>>, <<2, 3>>, <<1, 2, 1>>, <<3, 1, 3, 2>>}

\* ways.dat with the ways 1, 2, 3 of every type and node list
JunctionWayFiles ==
  { [i \in 1..3 |-> MkWay(i, c[i][1], FALSE, FALSE, c[i][2])] :
      c \in [1..3 -> JunctionNodeLists \X WayTypes] }

InitJunctions ==
  /\ waysDat \in JunctionWayFiles
  /\ wayIdx = WayIdsOf(waysDat)
  /\ rawRels = <<>>
  /\ blockSize \in 1..MaxBlockSize
  /\ InitLocals

InitReader ==
  /\ waysDat = TurnWays
  /\ wayIdx = WayIdsOf(waysDat)
  /\ rawRels \in SeqsUpTo(ReaderRelations, MaxRels)
  /\ blockSize = MaxBlockSize
  /\ InitLocals

\* the block loop specification: three junctions, every block size
InitLive ==
  /\ waysDat = TurnWays
  /\ wayIdx \in IndexesOf(waysDat)
  /\ rawRels = <<>>
  /\ blockSize \in 1..MaxBlockSize
  /\ InitLocals

(***************************************************************************)
(* The steps of Import.                                                    *)
(***************************************************************************)
\* lines 420-425
ImportReadRestrictionRelations ==
  /\ pc = "rels"
  /\ restrictions' = ReadRestrictionRelationsFrom(rawRels, EmptyMap)
  /\ pc' = "junctions"
  /\ UNCHANGED <<inputs, junctions, nodeWayMap, node, block, wayIds, waysMap, w,
                 scannerPos, routeDat, writerPos, handledRouteNodeCount,
                 writtenRouteNodeCount, writtenRoutePathCount, errors>>

\* lines 433-440
ImportReadJunctions ==
  /\ pc = "junctions"
  /\ junctions' = ReadJunctions(waysDat)
  /\ pc' = "endpoints"
  /\ UNCHANGED <<inputs, restrictions, nodeWayMap, node, block, wayIds, waysMap, w,
                 scannerPos, routeDat, writerPos, handledRouteNodeCount,
                 writtenRouteNodeCount, writtenRoutePathCount, errors>>

\* lines 448-454
ImportReadWayEndpoints ==
  /\ pc = "endpoints"
  /\ nodeWayMap' = ReadWayEndpoints(waysDat, junctions)
  /\ pc' = "open"
  /\ UNCHANGED <<inputs, restrictions, junctions, node, block, wayIds, waysMap, w,
                 scannerPos, routeDat, writerPos, handledRouteNodeCount,
                 writtenRouteNodeCount, writtenRoutePathCount, errors>>

\* lines 456-492: junctions.clear(), the files are opened, the placeholder
\* count is written, node=nodeWayMap.begin()
ImportOpen ==
  /\ pc = "open"
  /\ junctions' = {}
  /\ scannerPos' = 0
  /\ routeDat' = FileWrite(<<>>, 0, writtenRouteNodeCount)
  /\ writerPos' = 1
  /\ node' = 0
  /\ pc' = "loop"
  /\ UNCHANGED <<inputs, restrictions, nodeWayMap, block, wayIds, waysMap, w,
                 handledRouteNodeCount, writtenRouteNodeCount,
                 writtenRoutePathCount, errors>>

\* faulty variant of NextBlock: a block starts again with the last key of the block
\* before it
NextBlockOverlap(keys, rank, size) ==
  SubSeq(keys, IF rank > 0 THEN rank ELSE 1, Min(rank + size, Len(keys)))

\* faulty variant of NextBlock: the fill loop ends one junction early, as with
\* "blockCount+1<block.size()"
NextBlockShort(keys, rank, size) ==
  SubSeq(keys, rank + 1, Min(rank + size - 1, Len(keys)))

\* "while (blockCount<block.size() && node!=nodeWayMap.end())": the keys
\* that enter the block when the iterator stands at rank node
NextBlock(keys, rank, size) == SubSeq(keys, rank + 1, Min(rank + size, Len(keys)))

\* lines 493-527: the block is filled and its way ids are collected; an
\* empty wayIds continues with the next block
ImportFillBlock ==
  /\ pc = "loop"
  /\ node < Len(Keys)
  /\ LET newBlock == NextBlock(Keys, node, blockSize)
         ids == UNION {Range(nodeWayMap[k]) : k \in Range(newBlock)}
     IN /\ block' = newBlock
        /\ node' = node + Len(newBlock)
        /\ wayIds' = ids
        /\ pc' = IF ids = {} THEN "loop" ELSE "load"
  /\ UNCHANGED <<inputs, restrictions, junctions, nodeWayMap, waysMap, w, scannerPos,
                 routeDat, writerPos, handledRouteNodeCount, writtenRouteNodeCount,
                 writtenRoutePathCount, errors>>

\* lines 529-547 with LoadWays (348-393) returning true
ImportLoadWays ==
  /\ pc = "load"
  /\ LET offsets == GetOffsets(waysDat, wayIdx, wayIds)
         oldPos == scannerPos
     IN /\ waysMap' = WaysMapOf(ReadWaysAt(waysDat, offsets))
        /\ scannerPos' = oldPos
  /\ w' = 0
  /\ pc' = "store"
  /\ UNCHANGED <<inputs, restrictions, junctions, nodeWayMap, node, block, wayIds,
                 routeDat, writerPos, handledRouteNodeCount, writtenRouteNodeCount,
                 writtenRoutePathCount, errors>>

\* lines 529-535 with LoadWays returning false: GetOffsets fails, or SetPos
\* or Read fails at step k of the loop, or the final SetPos(oldPos) fails
ImportLoadWaysFail ==
  /\ pc = "load"
  /\ LET offsets == GetOffsets(waysDat, wayIdx, wayIds)
         oldPos == scannerPos
     IN \/ scannerPos' = oldPos
        \/ \E k \in DOMAIN offsets, kind \in {"SetPos", "Read"} :
             scannerPos' = PosAtFailure(offsets, oldPos, k, kind)
        \/ /\ offsets # <<>>
           /\ scannerPos' = offsets[Len(offsets)] + 1
  /\ pc' = "failed"
  /\ UNCHANGED <<inputs, restrictions, junctions, nodeWayMap, node, block, wayIds,
                 waysMap, w, routeDat, writerPos, handledRouteNodeCount,
                 writtenRouteNodeCount, writtenRoutePathCount, errors>>

\* the RouteNode built by lines 549-880 for block[w]
CurrentRouteNode ==
  LET id == At0(block, w)
  IN BuildRouteNode(id, ListSort(nodeWayMap[id]), waysMap, DOMAIN nodeWayMap,
                    restrictions)

\* lines 549-890, one iteration of the store loop with Write returning true
ImportStoreRouteNode ==
  /\ pc = "store"
  /\ w < blockCount
  /\ LET id == At0(block, w)
         routeNode == CurrentRouteNode
     IN /\ nodeWayMap' = [nodeWayMap EXCEPT ![id] = ListSort(@)]
        /\ handledRouteNodeCount' = Inc32(handledRouteNodeCount)
        /\ errors' = errors \o routeNode.errors
        /\ routeDat' = FileWrite(routeDat, writerPos, Stored(routeNode))
        /\ writerPos' = writerPos + 1
        /\ writtenRouteNodeCount' = Inc32(writtenRouteNodeCount)
        /\ writtenRoutePathCount' = Add32(writtenRoutePathCount, Len(routeNode.paths))
  /\ w' = w + 1
  /\ pc' = IF w + 1 < blockCount THEN "store" ELSE "loop"
  /\ UNCHANGED <<inputs, restrictions, junctions, node, block, wayIds, waysMap,
                 scannerPos>>

\* lines 549-884, one iteration of the store loop with Write returning false
ImportStoreRouteNodeFail ==
  /\ pc = "store"
  /\ w < blockCount
  /\ LET id == At0(block, w)
         routeNode == CurrentRouteNode
     IN /\ nodeWayMap' = [nodeWayMap EXCEPT ![id] = ListSort(@)]
        /\ handledRouteNodeCount' = Inc32(handledRouteNodeCount)
        /\ errors' = errors \o routeNode.errors
  /\ pc' = "failed"
  /\ UNCHANGED <<inputs, restrictions, junctions, node, block, wayIds, waysMap, w,
                 scannerPos, routeDat, writerPos, writtenRouteNodeCount,
                 writtenRoutePathCount>>

\* lines 893-896: the loop is left, scanner.Close() succeeds or fails
ImportCloseScanner ==
  /\ pc = "loop"
  /\ node >= Len(Keys)
  /\ \/ pc' = "patch"
     \/ pc' = "failed"
  /\ UNCHANGED <<inputs, restrictions, junctions, nodeWayMap, node, block, wayIds,
                 waysMap, w, scannerPos, routeDat, writerPos, handledRouteNodeCount,
                 writtenRouteNodeCount, writtenRoutePathCount, errors>>

\* lines 898-899: the count is written over the placeholder
ImportPatchHeader ==
  /\ pc = "patch"
  /\ routeDat' = FileWrite(routeDat, 0, writtenRouteNodeCount)
  /\ writerPos' = 1
  /\ pc' = "close"
  /\ UNCHANGED <<inputs, restrictions, junctions, nodeWayMap, node, block, wayIds,
                 waysMap, w, scannerPos, handledRouteNodeCount, writtenRouteNodeCount,
                 writtenRoutePathCount, errors>>

\* lines 902-917: writer and index are closed and the maps are cleared, or
\* one of the two Close() calls fails
ImportFinish ==
  /\ pc = "close"
  /\ \/ /\ pc' = "done"
        /\ nodeWayMap' = EmptyMap
        /\ restrictions' = EmptyMap
     \/ /\ pc' = "failed"
        /\ UNCHANGED <<nodeWayMap, restrictions>>
  /\ UNCHANGED <<inputs, junctions, node, block, wayIds, waysMap, w, scannerPos,
                 routeDat, writerPos, handledRouteNodeCount, writtenRouteNodeCount,
                 writtenRoutePathCount, errors>>

Next ==
  \/ ImportReadRestrictionRelations
  \/ ImportReadJunctions
  \/ ImportReadWayEndpoints
  \/ ImportOpen
  \/ ImportFillBlock
  \/ ImportLoadWays
  \/ ImportLoadWaysFail
  \/ ImportStoreRouteNode
  \/ ImportStoreRouteNodeFail
  \/ ImportCloseScanner
  \/ ImportPatchHeader
  \/ ImportFinish

Spec == Init /\ [][Next]_vars

SpecTurn == InitTurn /\ [][Next]_vars

SpecJunctions == InitJunctions /\ [][Next]_vars

SpecReader == InitReader /\ [][Next]_vars

\* Import is sequential code: a step that can be taken is taken
SpecLive == InitLive /\ [][Next]_vars /\ WF_vars(Next)

(***************************************************************************)
(* Vocabulary of the properties.                                           *)
(***************************************************************************)
\* the RouteNode records of route.dat, behind the count
Records == IF routeDat = <<>> THEN <<>> ELSE Tail(routeDat)

RecordSet == Range(Records)

\* the way of ways.dat with the given id
WayOf(id) == CHOOSE wy \in Range(waysDat) : wy.id = id

\* the 1-based positions of a node id in a node list
Occurrences(nodes, id) == {i \in DOMAIN nodes : nodes[i] = id}

\* the ids of the paths of rn whose wayIndex is k, in path order
RECURSIVE PathIdsAt(_, _)
PathIdsAt(paths, k) ==
  IF paths = <<>> THEN <<>>
  ELSE (IF Head(paths).wayIndex = k THEN <<Head(paths).id>> ELSE <<>>)
       \o PathIdsAt(Tail(paths), k)

\* the ids of the paths of rn that run over the way with the given id
PathIdsOver(rn, wayId) ==
  {rn.paths[i].id : i \in {j \in DOMAIN rn.paths :
                             /\ rn.paths[j].wayIndex < Len(rn.ways)
                             /\ At0(rn.ways, rn.paths[j].wayIndex) = wayId}}

(***************************************************************************)
(* C1: after Import has completed successfully the count stored at offset  *)
(* 0 of route.dat equals the number of RouteNode records in the file.      *)
(***************************************************************************)
C1_HeaderCount == pc = "done" => At0(routeDat, 0) = Len(Records)

C1_Witness == pc = "done" /\ Len(Records) >= 3 /\ blockSize = 2

(***************************************************************************)
(* C2: in every RouteNode written, every Path has a wayIndex inside ways,  *)
(* and the way it names holds the RouteNode's id and the Path's id.        *)
(***************************************************************************)
C2_PathWayIndex ==
  \A rn \in RecordSet : \A i \in DOMAIN rn.paths :
    LET p == rn.paths[i]
    IN /\ 0 <= p.wayIndex
       /\ p.wayIndex < Len(rn.ways)
       /\ rn.id \in Range(WayOf(At0(rn.ways, p.wayIndex)).nodes)
       /\ p.id \in Range(WayOf(At0(rn.ways, p.wayIndex)).nodes)

\* a RouteNode with a duplicate way id, paths over an area way and over an
\* open way, written in a run in which a way was missing from the batch
C2_Witness ==
  /\ errors # <<>>
  /\ \E rn \in RecordSet :
       /\ \E k \in 1..(Len(rn.ways) - 1) : rn.ways[k] = rn.ways[k + 1]
       /\ \E i, j \in DOMAIN rn.paths :
            /\ WayOf(At0(rn.ways, rn.paths[i].wayIndex)).area
            /\ ~WayOf(At0(rn.ways, rn.paths[j].wayIndex)).area

(***************************************************************************)
(* C3: in every RouteNode written, every Exclude has a targetPath inside   *)
(* paths, and the way of that path differs from the Exclude's sourceWay.   *)
(***************************************************************************)
C3_ExcludeTarget ==
  \A rn \in RecordSet : \A i \in DOMAIN rn.excludes :
    LET e == rn.excludes[i]
    IN /\ 0 <= e.targetPath
       /\ e.targetPath < Len(rn.paths)
       /\ At0(rn.ways, At0(rn.paths, e.targetPath).wayIndex) # e.sourceWay

C3_Witness ==
  \E rn \in RecordSet : \E i \in DOMAIN rn.excludes : rn.excludes[i].targetPath >= 1

(***************************************************************************)
(* C4 as claimed: in every RouteNode written, ways is strictly ascending.  *)
(***************************************************************************)
C4_StrictlyAscending ==
  \A rn \in RecordSet : \A k \in 1..(Len(rn.ways) - 1) : rn.ways[k] < rn.ways[k + 1]

(***************************************************************************)
(* C4 amended: in every RouteNode written, ways is ascending (each way id  *)
(* is at least its predecessor), and a way id occurs in it once per        *)
(* occurrence of the junction in the node list of that way.                *)
(***************************************************************************)
C4_Ascending ==
  \A rn \in RecordSet :
    /\ \A k \in 1..(Len(rn.ways) - 1) : rn.ways[k] <= rn.ways[k + 1]
    /\ \A id \in Range(rn.ways) :
         Cardinality(Occurrences(rn.ways, id))
           = Cardinality(Occurrences(WayOf(id).nodes, rn.id))

C4_Witness ==
  \E rn \in RecordSet : \E k \in 1..(Len(rn.ways) - 2) :
    rn.ways[k] = rn.ways[k + 1] /\ rn.ways[k + 1] < rn.ways[k + 2]

(***************************************************************************)
(* C5: a RouteNode is written only for a node id that lies on at least two *)
(* distinct routable ways.                                                 *)
(***************************************************************************)
RoutableWaysThrough(id) ==
  {i \in DOMAIN waysDat : IsRoutable(waysDat[i]) /\ id \in Range(waysDat[i].nodes)}

C5_TwoDistinctWays ==
  \A rn \in RecordSet : Cardinality(RoutableWaysThrough(rn.id)) >= 2

(***************************************************************************)
(* C6: when the run has succeeded, route.dat holds exactly one RouteNode   *)
(* per key of nodeWayMap and none else, in strictly ascending id order.    *)
(***************************************************************************)
C6_OnePerKey ==
  pc = "close" =>
    /\ [i \in 1..Len(Records) |-> Records[i].id] = Keys
    /\ \A i \in 1..(Len(Records) - 1) : Records[i].id < Records[i + 1].id

\* a run of more than one block whose last block is not full
C6_Witness == pc = "close" /\ Len(Records) = 3 /\ blockSize = 2

(***************************************************************************)
(* C7: CanTurn on a list of at most one restriction.  The empty list       *)
(* allows every turn; a single Allow a->b allows a->b and forbids a->c for *)
(* every other c; a single Forbid a->b forbids a->b and allows a->c for    *)
(* every other c.  The lists are the empty one and those of restrictions.  *)
(***************************************************************************)
TurnIds == 0..4

RestrictionLists == {<<>>} \cup {restrictions[v] : v \in DOMAIN restrictions}

C7_CanTurnSingle ==
  \A R \in RestrictionLists :
    /\ R = <<>> => \A a, b \in TurnIds : CanTurn(R, a, b)
    /\ Len(R) = 1 =>
         /\ R[1].type = allow =>
              /\ CanTurn(R, R[1].from, R[1].to)
              /\ \A c \in TurnIds \ {R[1].to} : ~CanTurn(R, R[1].from, c)
         /\ R[1].type = forbit =>
              /\ ~CanTurn(R, R[1].from, R[1].to)
              /\ \A c \in TurnIds \ {R[1].to} : CanTurn(R, R[1].from, c)

\* a single Allow was read and the junction's RouteNode carries excludes
C7_Witness ==
  /\ \E v \in DOMAIN restrictions :
       Len(restrictions[v]) = 1 /\ restrictions[v][1].type = allow
  /\ \E rn \in RecordSet : rn.excludes # <<>>

(***************************************************************************)
(* C8: for a written RouteNode of junction J with restriction list R, the  *)
(* excludes are exactly the pairs (src, first path over dst) for the way   *)
(* ids src # dst incident at J with CanTurn(R, src, dst) false and a path  *)
(* over dst; a junction without restriction list has no excludes.          *)
(***************************************************************************)
\* the smallest 0-based index of a path of rn over the way dst
FirstPathOver(rn, dst) ==
  CHOOSE t \in 0..(Len(rn.paths) - 1) :
    /\ At0(rn.ways, At0(rn.paths, t).wayIndex) = dst
    /\ \A u \in 0..(t - 1) : At0(rn.ways, At0(rn.paths, u).wayIndex) # dst

ExpectedExcludes(rn) ==
  IF rn.id \notin DOMAIN restrictions THEN {}
  ELSE LET incident == Range(nodeWayMap[rn.id])
       IN { [sourceWay |-> src, targetPath |-> FirstPathOver(rn, dst)] :
              <<src, dst>> \in
                { sd \in incident \X incident :
                    /\ sd[1] # sd[2]
                    /\ ~CanTurn(restrictions[rn.id], sd[1], sd[2])
                    /\ PathIdsOver(rn, sd[2]) # {} } }

C8_Excludes ==
  pc # "done" => \A rn \in RecordSet : Range(rn.excludes) = ExpectedExcludes(rn)

\* a RouteNode with an exclude whose target way has a path before its first
\* path, next to an allowed turn of the same source way
C8_Witness ==
  /\ pc # "done"
  /\ \E rn \in RecordSet :
       /\ \E i \in DOMAIN rn.excludes : rn.excludes[i].targetPath >= 2
       /\ \E i \in DOMAIN rn.excludes, dst \in Range(rn.ways) :
            /\ dst # rn.excludes[i].sourceWay
            /\ CanTurn(restrictions[rn.id], rn.excludes[i].sourceWay, dst)

(***************************************************************************)
(* C9: for an open way and a junction at position i, a backward Path is    *)
(* emitted iff i > 0, the way is not oneway and a junction lies before i;  *)
(* a forward Path iff a junction lies behind i; each targets the nearest   *)
(* junction on its side.                                                   *)
(***************************************************************************)
\* the junction positions of a node list on either side of position i
JunctionsBefore(nodes, i, keys) == {j \in 1..(i - 1) : nodes[j] \in keys}

JunctionsBehind(nodes, i, keys) == {j \in (i + 1)..Len(nodes) : nodes[j] \in keys}

Greatest(S) == CHOOSE x \in S : \A y \in S : y <= x

Least(S) == CHOOSE x \in S : \A y \in S : x <= y

ExpectedBackward(way, i, keys) ==
  IF i > 1 /\ ~way.oneway /\ JunctionsBefore(way.nodes, i, keys) # {}
    THEN <<way.nodes[Greatest(JunctionsBefore(way.nodes, i, keys))]>>
    ELSE <<>>

ExpectedForward(way, i, keys) ==
  IF i < Len(way.nodes) /\ JunctionsBehind(way.nodes, i, keys) # {}
    THEN <<way.nodes[Least(JunctionsBehind(way.nodes, i, keys))]>>
    ELSE <<>>

RECURSIVE ExpectedOpen(_, _, _, _)
ExpectedOpen(way, id, keys, i) ==
  IF i > Len(way.nodes) THEN <<>>
  ELSE (IF way.nodes[i] = id
          THEN ExpectedBackward(way, i, keys) \o ExpectedForward(way, i, keys)
          ELSE <<>>)
       \o ExpectedOpen(way, id, keys, i + 1)

IsOpenWay(way) == ~way.area /\ way.nodes[1] # way.nodes[Len(way.nodes)]

C9_OpenWayPaths ==
  pc # "done" =>
    \A rn \in RecordSet : \A k \in 0..(Len(rn.ways) - 1) :
      IsOpenWay(WayOf(At0(rn.ways, k))) =>
        PathIdsAt(rn.paths, k)
          = ExpectedOpen(WayOf(At0(rn.ways, k)), rn.id, DOMAIN nodeWayMap, 1)

\* the way [A,J1,M,J2,B] with J1 and J2 the only junctions on it: two-way,
\* J2 has the one Path to J1 over it; oneway, J1 has one to J2 and J2 none
C9_Witness ==
  /\ pc = "close"
  /\ waysDat[1].nodes = <<4, 1, 5, 2, 6>>
  /\ ~waysDat[1].area
  /\ \E r1, r2 \in RecordSet :
       /\ r1.id = 1 /\ r2.id = 2
       /\ \E k \in 0..(Len(r1.ways) - 1) :
            At0(r1.ways, k) = 2 /\ PathIdsAt(r1.paths, k) = <<2>>
       /\ \E k \in 0..(Len(r2.ways) - 1) :
            /\ At0(r2.ways, k) = 2
            /\ PathIdsAt(r2.paths, k) = IF waysDat[1].oneway THEN <<>> ELSE <<1>>

(***************************************************************************)
(* C10: for a closed area way [J1, J2, J3, J1] whose three nodes are all   *)
(* junctions, the RouteNode of each of them has, over this way, a Path to  *)
(* each of the two other junctions.                                        *)
(***************************************************************************)
IsAreaTriangle(way) ==
  /\ way.area
  /\ Len(way.nodes) = 4
  /\ way.nodes[1] = way.nodes[4]
  /\ Cardinality(Range(way.nodes)) = 3

C10_AreaTriangle ==
  pc # "done" =>
    \A rn \in RecordSet : \A wayId \in Range(rn.ways) :
      (IsAreaTriangle(WayOf(wayId)) /\ Range(WayOf(wayId).nodes) \subseteq DOMAIN nodeWayMap)
        => PathIdsOver(rn, wayId) = Range(WayOf(wayId).nodes) \ {rn.id}

(***************************************************************************)
(* C11: for a closed, non-area, oneway way the RouteNode of every junction *)
(* on it, the one that is first and last node included, has exactly one    *)
(* Path over that way; it leads to the next junction in forward direction  *)
(* and there is no backward Path.                                          *)
(***************************************************************************)
IsOnewayLoop(way) == ~way.area /\ IsClosed(way) /\ way.oneway

\* the paths of rn that run over the way with the given id, in path order
PathsOver(rn, wayId) ==
  SelectSeq(rn.paths, LAMBDA p : At0(rn.ways, p.wayIndex) = wayId)

\* the junction that follows position i of a closed node list in forward
\* direction, going round the loop
NextJunctionForward(nodes, i, keys) ==
  LET behind == JunctionsBehind(nodes, i, keys)
      before == JunctionsBefore(nodes, i, keys)
  IN IF behind # {} THEN nodes[Least(behind)] ELSE nodes[Least(before)]

C11_OnewayLoop ==
  pc # "done" =>
    \A rn \in RecordSet : \A wayId \in Range(rn.ways) :
      IsOnewayLoop(WayOf(wayId)) =>
        LET nodes == WayOf(wayId).nodes
            i == Least(Occurrences(nodes, rn.id))
            over == PathsOver(rn, wayId)
        IN /\ Len(over) = 1
           /\ over[1].id = NextJunctionForward(nodes, i, DOMAIN nodeWayMap)

(***************************************************************************)
(* C12 as stated: for an area way with exactly two distinct junctions on   *)
(* it, the RouteNode of each of the two has exactly two Paths over that    *)
(* way, one of the forward and one of the backward walk, and the two       *)
(* differ.                                                                 *)
(***************************************************************************)
JunctionsOn(way) == Range(way.nodes) \cap DOMAIN nodeWayMap

IsAreaWithTwoJunctions(way) == way.area /\ Cardinality(JunctionsOn(way)) = 2

C12_AreaTwoPaths ==
  pc # "done" =>
    \A rn \in RecordSet : \A wayId \in Range(rn.ways) :
      IsAreaWithTwoJunctions(WayOf(wayId)) =>
        LET over == PathsOver(rn, wayId)
        IN Len(over) = 2 /\ over[1] # over[2]

\* the position at which the forward walk from position c of an area stops
ForwardStop(nodes, c, keys) ==
  LET behind == JunctionsBehind(nodes, c, keys)
      before == JunctionsBefore(nodes, c, keys)
  IN IF behind # {} THEN Least(behind)
     ELSE IF before # {} THEN Least(before) ELSE c

\* the position at which the backward walk from position c of an area stops
BackwardStop(nodes, c, keys) ==
  LET behind == JunctionsBehind(nodes, c, keys)
      before == JunctionsBefore(nodes, c, keys)
  IN IF before # {} THEN Greatest(before)
     ELSE IF behind # {} THEN Greatest(behind) ELSE c

ExpectedArea(nodes, c, keys) ==
  LET f == ForwardStop(nodes, c, keys)
      b == BackwardStop(nodes, c, keys)
  IN (IF f # c THEN <<nodes[f]>> ELSE <<>>)
       \o (IF b # c /\ b # f THEN <<nodes[b]>> ELSE <<>>)

OccursOnce(nodes, id) == Cardinality(Occurrences(nodes, id)) = 1

(***************************************************************************)
(* C12 amended: for an area way with exactly two distinct junctions on it, *)
(* each entry of the way in the RouteNode of one of the two has the Path   *)
(* of the forward walk, and the Path of the backward walk only when that   *)
(* walk stops at another position of the node list than the forward walk;  *)
(* when both junctions occur once in the node list that is exactly one     *)
(* Path over the way, to the other junction.                               *)
(***************************************************************************)
C12_AreaTwoJunctions ==
  pc # "done" =>
    \A rn \in RecordSet : \A wayId \in Range(rn.ways) :
      IsAreaWithTwoJunctions(WayOf(wayId)) =>
        LET nodes == WayOf(wayId).nodes
            keys == DOMAIN nodeWayMap
            c == Least(Occurrences(nodes, rn.id))
        IN /\ \A k \in 0..(Len(rn.ways) - 1) :
                At0(rn.ways, k) = wayId
                  => PathIdsAt(rn.paths, k) = ExpectedArea(nodes, c, keys)
           /\ (\A j \in JunctionsOn(WayOf(wayId)) : OccursOnce(nodes, j))
                => /\ Len(PathsOver(rn, wayId)) = 1
                   /\ {PathsOver(rn, wayId)[1].id} = JunctionsOn(WayOf(wayId)) \ {rn.id}

C12_Witness ==
  /\ pc = "close"
  /\ \E rn \in RecordSet : \E wayId \in Range(rn.ways) :
       /\ IsAreaWithTwoJunctions(WayOf(wayId))
       /\ \A j \in JunctionsOn(WayOf(wayId)) : OccursOnce(WayOf(wayId).nodes, j)
       /\ Len(WayOf(wayId).nodes) = 5
       /\ Len(PathsOver(rn, wayId)) = 1

(***************************************************************************)
(* C13: whenever LoadWays returns, with true or with false, the position   *)
(* of the shared scanner on ways.dat is the position it had when LoadWays  *)
(* was called.                                                             *)
(***************************************************************************)
C13_ScannerPosRestored == [][pc = "load" => scannerPos' = scannerPos]_vars

(***************************************************************************)
(* C14: when a way id of a junction's list was not loaded, the stage goes  *)
(* on: the error is reported, the way gives no entry in ways and no Path,  *)
(* the Paths of the junction's other ways are built with a valid wayIndex, *)
(* and the RouteNode is written and counted.                               *)
(***************************************************************************)
\* the way ids of a junction's list that the way index does not hold
MissingWays(id) == {x \in Range(nodeWayMap[id]) : x \notin wayIdx}

C14_MissingWaySkipped ==
  pc # "done" =>
    /\ \A rn \in RecordSet :
         MissingWays(rn.id) # {} =>
           /\ MissingWays(rn.id) \subseteq Range(errors)
           /\ rn.ways = SelectSeq(nodeWayMap[rn.id], LAMBDA x : x \in wayIdx)
           /\ \A i \in DOMAIN rn.paths :
                /\ rn.paths[i].wayIndex \in 0..(Len(rn.ways) - 1)
                /\ At0(rn.ways, rn.paths[i].wayIndex) \notin MissingWays(rn.id)
           /\ \A k \in 0..(Len(rn.ways) - 1) :
                LET built == WayPaths(WayOf(At0(rn.ways, k)), rn.id,
                                      DOMAIN nodeWayMap, k)
                IN PathIdsAt(rn.paths, k) = [i \in DOMAIN built |-> built[i].id]
    /\ writtenRouteNodeCount = Len(Records)
    /\ pc \in {"patch", "close"} =>
         /\ {rn.id : rn \in RecordSet} = DOMAIN nodeWayMap
         /\ handledRouteNodeCount = writtenRouteNodeCount

C14_Witness ==
  /\ pc = "close"
  /\ errors # <<>>
  /\ \E rn \in RecordSet :
       /\ MissingWays(rn.id) # {}
       /\ \E x \in Range(rn.ways) : \A m \in MissingWays(rn.id) : m < x
       /\ rn.paths # <<>>
  /\ \E rn \in RecordSet : MissingWays(rn.id) # {} /\ rn.ways = <<>>

(***************************************************************************)
(* C15: at every termination of the stage after route.dat was created, an  *)
(* abort after records were written included, the count at offset 0 of     *)
(* route.dat equals the number of RouteNode records in the file.           *)
(***************************************************************************)
C15_HeaderAtTermination ==
  (pc \in {"done", "failed"} /\ routeDat # <<>>)
    => At0(routeDat, 0) = Len(Records)

(***************************************************************************)
(* C16: CanTurn(R, from, to) depends only on the sub-sequence R' of the    *)
(* restrictions of R with r.from = from, in order: it is the verdict of    *)
(* the first r of R' with r.to = to when there is one (Allow true, Forbid  *)
(* false), else true when R' is empty, else true when the last element of  *)
(* R' is a Forbid and false when it is an Allow; restrictions with another *)
(* from never change the result.                                           *)
(***************************************************************************)
RestrictionsFrom(R, from) == SelectSeq(R, LAMBDA r : r.from = from)

CanTurnExpected(R, from, to) ==
  LET sub == RestrictionsFrom(R, from)
      hits == {i \in DOMAIN sub : sub[i].to = to}
  IN IF hits # {} THEN sub[Least(hits)].type = allow
     ELSE IF sub = <<>> THEN TRUE
     ELSE sub[Len(sub)].type = forbit

C16_CanTurnByFrom ==
  \A R \in RestrictionLists : \A a, b \in TurnIds :
    /\ CanTurn(R, a, b) = CanTurnExpected(R, a, b)
    /\ CanTurn(R, a, b) = CanTurn(RestrictionsFrom(R, a), a, b)

\* an Allow and a Forbid with different from ways were read at one via node
\* and CanTurn answers differently for the two from ways
C16_Witness ==
  /\ pc = "close"
  /\ \E R \in RestrictionLists :
       /\ Len(R) >= 2
       /\ R[1].from # R[2].from
       /\ R[1].type # R[2].type
       /\ CanTurn(R, R[1].from, R[2].to) # CanTurn(R, R[2].from, R[1].to)

(***************************************************************************)
(* C17: ReadJunctions puts a node id into the junction set exactly when    *)
(* the node appears at least twice in the node lists of all routable ways  *)
(* together, each appearance within one way counting on its own; ways that *)
(* are not routable never change the result.                               *)
(***************************************************************************)
\* the positions in ways.dat of the routable ways: "road" is the one type
\* that is neither typeIgnore nor ignored and can be a route
RoutableWays == {i \in DOMAIN waysDat : waysDat[i].type = "road"}

\* the appearances of node n: pairs of a routable way and a position in it
Appearances(n) ==
  UNION {{<<i, j>> : j \in Occurrences(waysDat[i].nodes, n)} : i \in RoutableWays}

AllNodes == UNION {Range(waysDat[i].nodes) : i \in DOMAIN waysDat}

HasMember(rel, type, role) ==
  \E i \in DOMAIN rel.members :
    /\ rel.members[i].type = type
    /\ rel.members[i].role = role
    /\ rel.members[i].id # 0

\* the id of the last member of the given kind and role
LastMember(rel, type, role) ==
  LET hits == {i \in DOMAIN rel.members :
                 rel.members[i].type = type /\ rel.members[i].role = role}
  IN rel.members[Greatest(hits)].id

IsTurnRestriction(rel) ==
  /\ rel.type \in posRestrictions \cup negRestrictions
  /\ HasMember(rel, memberWay, "from")
  /\ HasMember(rel, memberNode, "via")
  /\ HasMember(rel, memberWay, "to")

RestrictionOf(rel) ==
  [type |-> IF rel.type \in posRestrictions THEN allow ELSE forbit,
   from |-> LastMember(rel, memberWay, "from"),
   to |-> LastMember(rel, memberWay, "to")]

\* the turn restrictions of the stream with the given via node, in order
RestrictionsAt(v) ==
  LET sel == SelectSeq(rawRels,
                       LAMBDA rel : /\ IsTurnRestriction(rel)
                                    /\ LastMember(rel, memberNode, "via") = v)
  IN [i \in DOMAIN sel |-> RestrictionOf(sel[i])]

ViaNodes ==
  {LastMember(rawRels[i], memberNode, "via") :
     i \in {j \in DOMAIN rawRels : IsTurnRestriction(rawRels[j])}}

C19_BlockLoopTerminates ==
  /\ [][(pc = "loop" /\ pc' \in {"loop", "load"}) => node' > node]_vars
  /\ (pc = "loop") ~> (pc \in {"patch", "failed"})

\* the loop was left after three blocks
C19_Witness ==
  /\ pc = "patch"
  /\ blockSize = 1
  /\ node = 3
  /\ Len(Keys) = 3

(***************************************************************************)
(* C20: when a way id occurs more than once in the way list of a junction, *)
(* its entries are adjacent in RouteNode.ways and every Path over that way *)
(* carries the wayIndex of the first of them, the smallest k with          *)
(* ways[k] the way id.                                                     *)
(***************************************************************************)
\* the 0-based index of the first entry of ways with the given way id
FirstEntry(ways, wayId) == Least(Occurrences(ways, wayId)) - 1

C20_FirstWayIndex ==
  \A rn \in RecordSet : \A wayId \in Range(rn.ways) :
    Cardinality(Occurrences(rn.ways, wayId)) > 1 =>
      /\ \A i, j \in Occurrences(rn.ways, wayId) :
           \A k \in i..j : rn.ways[k] = wayId
      /\ \A i \in DOMAIN rn.paths :
           At0(rn.ways, rn.paths[i].wayIndex) = wayId
             => rn.paths[i].wayIndex = FirstEntry(rn.ways, wayId)

(***************************************************************************)
(* C21: the sequence of RouteNode records of a successful run, with ids,   *)
(* ways, paths, excludes and their order, is the same for every positive   *)
(* block size: it is the output of the run with block size 1 on the same   *)
(* ways, junction map and restrictions.                                    *)
(***************************************************************************)
\* the record that the run with block size 1 writes for a junction: the
\* block is that junction alone and only its ways are loaded
SingleBlockRecord(id) ==
  LET ids == Range(nodeWayMap[id])
      wmap == WaysMapOf(ReadWaysAt(waysDat, GetOffsets(waysDat, wayIdx, ids)))
  IN Stored(BuildRouteNode(id, ListSort(nodeWayMap[id]), wmap,
                           DOMAIN nodeWayMap, restrictions))

C21_BlockSizeIndependent ==
  pc # "done" =>
    /\ Len(Records) <= Len(Keys)
    /\ \A i \in DOMAIN Records : Records[i] = SingleBlockRecord(Keys[i])
    /\ pc = "close" => Len(Records) = Len(Keys)

\* a run with blocks of two junctions wrote three or more records, one of
\* them with excludes and one for a junction with a way that was not loaded
C21_Witness ==
  /\ pc = "close"
  /\ blockSize = 2
  /\ Len(Records) >= 3
  /\ \E rn \in RecordSet : rn.excludes # <<>>
  /\ \E rn \in RecordSet : MissingWays(rn.id) # {} /\ rn.paths # <<>>

====
